---- MODULE Spec2Model ----
(***************************************************************************)
(* Model of SimulationLogParser (src/logparser.py): the record parser      *)
(* (parse_entry and its regular-expression helpers) and the error          *)
(* aggregator (the loop of parse_log with check_dublicate).                *)
(*                                                                         *)
(* Python strings are sequences of one-character strings, so that the      *)
(* regular expressions, str.replace, str.split and the SequenceMatcher     *)
(* ratio are computed character by character as the code computes them.    *)
(* The alphabet has no newline: csv delivers one record per line.          *)
(***************************************************************************)
EXTENDS Integers, Sequences, FiniteSets, TLC

VARIABLES
    errors,            \* parse_log: the cluster map, key -> cluster
    unparsed_counter,  \* parse_log: KO entries whose parsing raised
    simulation,        \* parse_log: simulation_name of the first row, None before it
    data,              \* parse_log: the last successfully parsed entry
    consumed,          \* the lines of the file read so far, in file order
    pc                 \* "loop" while the file is being read, "done" after the return

vars == <<errors, unparsed_counter, simulation, data, consumed, pc>>

-----------------------------------------------------------------------------
(* Module-level constants of logparser.py                                  *)

UNDEFINED == <<"u", "n", "d", "e", "f", "i", "n", "e", "d">>

FIELDNAMES == <<"action", "simulation", "thread", "simulation_name", "request_name",
                "request_start", "request_end", "status", "gatling_error", "error">>

ERROR_FIELDS == <<"Response", "Request_params", "Gatling_error">>

\* restval of csv.DictReader
not_found == <<"n", "o", "t", "_", "f", "o", "u", "n", "d">>

\* Python's None (parse_response); a one-element tuple no text is equal to
None == <<"None">>

\* str(x): the text of a text, "None" for None
str(x) == IF x = None THEN <<"N", "o", "n", "e">> ELSE x

\* the run-level arguments (self.args)
args == [environment |-> "staging", type |-> "load", count |-> 10]

-----------------------------------------------------------------------------
(* Character classes and text helpers                                      *)

Digits == {"0", "1", "2", "3", "4", "5", "6", "7", "8", "9"}

Upper == {"A", "B", "C", "D", "E", "F", "G", "H", "I", "J", "K", "L", "M",
          "N", "O", "P", "Q", "R", "S", "T", "U", "V", "W", "X", "Y", "Z"}

Lower == {"a", "b", "c", "d", "e", "f", "g", "h", "i", "j", "k", "l", "m",
          "n", "o", "p", "q", "r", "s", "t", "u", "v", "w", "x", "y", "z"}

Letters == Upper \cup Lower

Min(S) == CHOOSE x \in S : \A y \in S : x <= y

\* the literal pat stands in s at position i
Lit(s, i, pat) ==
    /\ i >= 1
    /\ i + Len(pat) - 1 <= Len(s)
    /\ \A k \in 1..Len(pat) : s[i + k - 1] = pat[k]

\* position after an optional character c at i (greedy "c?")
Opt(s, i, c) == IF i <= Len(s) /\ s[i] = c THEN i + 1 ELSE i

\* position after the longest run of characters of class at i (greedy "[class]*")
RunEnd(s, i, class) ==
    CHOOSE e \in i..(Len(s) + 1) :
        /\ \A k \in i..(e - 1) : s[k] \in class
        /\ e = Len(s) + 1 \/ s[e] \notin class

\* first position >= i of character c in s, 0 if there is none
IndexOf(s, i, c) ==
    LET hits == {k \in i..Len(s) : s[k] = c}
    IN IF hits = {} THEN 0 ELSE Min(hits)

\* the concatenation of pieces[lo..hi]
RECURSIVE Concat(_, _, _)
Concat(pieces, lo, hi) ==
    IF lo > hi THEN <<>>
    ELSE IF lo = hi THEN pieces[lo]
    ELSE LET mid == (lo + hi) \div 2
         IN Concat(pieces, lo, mid) \o Concat(pieces, mid + 1, hi)

\* the occurrences str.replace takes: scanning from position i, each occurrence
\* of old that starts at or after the end of the one taken before it
RECURSIVE Occurrences(_, _, _)
Occurrences(s, i, old) ==
    LET hits == {k \in i..Len(s) : Lit(s, k, old)}
    IN IF hits = {} THEN {}
       ELSE {Min(hits)} \cup Occurrences(s, Min(hits) + Len(old), old)

\* str.replace(old, new), old not empty: every non-overlapping occurrence, left to right
replace(s, old, new) ==
    LET occ == Occurrences(s, 1, old)
        pieces == [i \in 1..Len(s) |->
                     IF i \in occ THEN new
                     ELSE IF \E j \in occ : j < i /\ i < j + Len(old) THEN <<>>
                     ELSE <<s[i]>>]
    IN Concat(pieces, 1, Len(s))

\* str.split(sep) for a one-character separator
RECURSIVE split(_, _)
split(s, sep) ==
    LET k == IndexOf(s, 1, sep)
    IN IF k = 0 THEN <<s>>
       ELSE <<SubSeq(s, 1, k - 1)>> \o split(SubSeq(s, k + 1, Len(s)), sep)

\* int(s) succeeds: an optional sign and at least one digit
IsInt(s) ==
    LET d == IF Len(s) >= 1 /\ s[1] \in {"-", "+"} THEN SubSeq(s, 2, Len(s)) ELSE s
    IN Len(d) >= 1 /\ \A k \in 1..Len(d) : d[k] \in Digits

DigitVal(c) == CHOOSE n \in 0..9 : <<"0", "1", "2", "3", "4", "5", "6", "7", "8", "9">>[n + 1] = c

RECURSIVE NatOf(_)
NatOf(d) == IF d = <<>> THEN 0 ELSE 10 * NatOf(SubSeq(d, 1, Len(d) - 1)) + DigitVal(d[Len(d)])

int(s) ==
    IF s[1] = "-" THEN 0 - NatOf(SubSeq(s, 2, Len(s)))
    ELSE IF s[1] = "+" THEN NatOf(SubSeq(s, 2, Len(s)))
    ELSE NatOf(s)

\* the value of a pattern that does not match (re.search returns None)
NoMatch == <<"no match">>

-----------------------------------------------------------------------------
(* RecordParser                                                            *)

escape_for_json(string) ==
    IF string = None THEN string
    ELSE replace(replace(replace(replace(replace(string,
            <<"\"">>, <<"&", "q", "u", "o", "t", ";">>),
            <<"\\">>, <<"&", "#", "9", "2", ";">>),
            <<"/">>, <<"&", "#", "4", "7", ";">>),
            <<"<">>, <<"&", "l", "t", ";">>),
            <<">">>, <<"&", "g", "t", ";">>)

\* ("code"|"Code"): ?"?(-?\d+)"?,   matched at position i: group(2) or NoMatch
error_code_at(s, i) ==
    LET p1 == i + 6
        p2 == Opt(s, Opt(s, p1 + 1, " "), "\"")
        p3 == Opt(s, p2, "-")
        p4 == RunEnd(s, p3, Digits)
        p5 == Opt(s, p4, "\"")
    IN IF /\ \/ Lit(s, i, <<"\"", "c", "o", "d", "e", "\"">>)
             \/ Lit(s, i, <<"\"", "C", "o", "d", "e", "\"">>)
          /\ Lit(s, p1, <<":">>)
          /\ p4 > p3
          /\ Lit(s, p5, <<",">>)
       THEN SubSeq(s, p2, p4 - 1)
       ELSE NoMatch

extract_error_code(error_code) ==
    LET hits == {i \in 1..Len(error_code) : error_code_at(error_code, i) # NoMatch}
    IN IF hits # {} THEN error_code_at(error_code, Min(hits)) ELSE UNDEFINED

\* HTTP Code: ?([a-zA-Z]*?\(?(\d+)\)?),   matched at position i: group(2) or NoMatch
response_code_at(s, i) ==
    LET p1 == Opt(s, i + 10, " ")
        p2 == RunEnd(s, p1, Letters)
        p3 == Opt(s, p2, "(")
        p4 == RunEnd(s, p3, Digits)
        p5 == Opt(s, p4, ")")
    IN IF /\ Lit(s, i, <<"H", "T", "T", "P", " ", "C", "o", "d", "e", ":">>)
          /\ p4 > p3
          /\ Lit(s, p5, <<",">>)
       THEN SubSeq(s, p3, p4 - 1)
       ELSE NoMatch

extract_response_code(error) ==
    LET hits == {i \in 1..Len(error) : response_code_at(error, i) # NoMatch}
    IN IF hits # {} THEN response_code_at(error, Min(hits)) ELSE UNDEFINED

\* (SessionId|sessionID|sessionId|SessionID)=(.*?&|.*)   group(2) of the leftmost match
session_value(param) ==
    LET hits == {i \in 1..Len(param) :
                    \/ Lit(param, i, <<"S", "e", "s", "s", "i", "o", "n", "I", "d", "=">>)
                    \/ Lit(param, i, <<"s", "e", "s", "s", "i", "o", "n", "I", "D", "=">>)
                    \/ Lit(param, i, <<"s", "e", "s", "s", "i", "o", "n", "I", "d", "=">>)
                    \/ Lit(param, i, <<"S", "e", "s", "s", "i", "o", "n", "I", "D", "=">>)}
    IN IF hits = {} THEN NoMatch
       ELSE LET v == Min(hits) + 10
                amp == IndexOf(param, v, "&")
            IN IF amp # 0 THEN SubSeq(param, v, amp) ELSE SubSeq(param, v, Len(param))

remove_session_id(param) ==
    LET group2 == session_value(param)
    IN IF group2 # NoMatch /\ group2 # <<>>
       THEN replace(param, group2, <<"_", ".", ".", ".">>)
       ELSE param

\* Request: ?(.+?)    (with a trailing blank), matched at position i: group(1) or NoMatch
request_at(s, i) ==
    LET p0 == i + 8
        \* ".+?" from p: the shortest non-empty text followed by a blank
        stop(p) == IndexOf(s, p + 1, " ")
    IN IF ~Lit(s, i, <<"R", "e", "q", "u", "e", "s", "t", ":">>) \/ p0 > Len(s) THEN NoMatch
       ELSE IF s[p0] = " " /\ p0 + 1 <= Len(s) /\ stop(p0 + 1) # 0
            THEN SubSeq(s, p0 + 1, stop(p0 + 1) - 1)
       ELSE IF stop(p0) # 0 THEN SubSeq(s, p0, stop(p0) - 1)
       ELSE NoMatch

\*  ([A-Z]+) headers   matched at position i: group(1) or NoMatch
method_at(s, i) ==
    LET p1 == RunEnd(s, i + 1, Upper)
    IN IF /\ Lit(s, i, <<" ">>)
          /\ p1 > i + 1
          /\ Lit(s, p1, <<" ", "h", "e", "a", "d", "e", "r", "s">>)
       THEN SubSeq(s, i + 1, p1 - 1)
       ELSE NoMatch

\* a raised exception, as the value of the call that raised it (a pair, so that
\* no text, match or one-element result is equal to it)
Raised == <<"raised", "Exception">>

parse_request(param) ==
    LET hits == {i \in 1..Len(param) : request_at(param, i) # NoMatch}
        mhits == {i \in 1..Len(param) : method_at(param, i) # NoMatch}
    IN IF hits # {}
       THEN LET request_parts == split(request_at(param, Min(hits)), "?")
                url == escape_for_json(request_parts[1])
                params == escape_for_json(IF Len(request_parts) >= 2
                                          THEN request_parts[Len(request_parts)]
                                          ELSE <<>>)
            IN IF mhits = {} THEN Raised   \* None.group(1): AttributeError
               ELSE <<url, params, method_at(param, Min(mhits))>>
       ELSE <<UNDEFINED, UNDEFINED, UNDEFINED>>

\* headers: ?(.+?) ?,   matched at position i: group(1) or NoMatch
headers_at(s, i) ==
    LET p0 == i + 8
        \* ".+? ?," from p: the shortest non-empty text followed by " ," or ","
        ends(p) == {e \in (p + 1)..Len(s) :
                       \/ s[e] = ","
                       \/ s[e] = " " /\ e + 1 <= Len(s) /\ s[e + 1] = ","}
    IN IF ~Lit(s, i, <<"h", "e", "a", "d", "e", "r", "s", ":">>) \/ p0 > Len(s) THEN NoMatch
       ELSE IF s[p0] = " " /\ ends(p0 + 1) # {}
            THEN SubSeq(s, p0 + 1, Min(ends(p0 + 1)) - 1)
       ELSE IF ends(p0) # {} THEN SubSeq(s, p0, Min(ends(p0)) - 1)
       ELSE NoMatch

parse_headers(param) ==
    LET hits == {i \in 1..Len(param) : headers_at(param, i) # NoMatch}
    IN IF hits # {} THEN headers_at(param, Min(hits)) ELSE UNDEFINED

\* Response: ?(.+)$   matched at position i: group(1) or NoMatch
response_at(s, i) ==
    LET p0 == i + 9
    IN IF ~Lit(s, i, <<"R", "e", "s", "p", "o", "n", "s", "e", ":">>) \/ p0 > Len(s) THEN NoMatch
       ELSE IF s[p0] = " " /\ p0 + 1 <= Len(s) THEN SubSeq(s, p0 + 1, Len(s))
       ELSE SubSeq(s, p0, Len(s))

parse_response(param) ==
    LET hits == {i \in 1..Len(param) : response_at(param, i) # NoMatch}
    IN IF hits # {} THEN escape_for_json(response_at(param, Min(hits))) ELSE None

\* the mapping of field name to column that csv.DictReader builds (restval for
\* the columns a short line lacks)
DictReader(line) ==
    [f \in {FIELDNAMES[k] : k \in 1..Len(FIELDNAMES)} |->
        LET k == CHOOSE k \in 1..Len(FIELDNAMES) : FIELDNAMES[k] = f
        IN IF k <= Len(line) THEN line[k] ELSE not_found]

\* response_time with a timestamp that is not a number taken as 0 instead of raising
response_time_lenient(values) ==
    <<(IF IsInt(values["request_end"]) THEN int(values["request_end"]) ELSE 0)
      - (IF IsInt(values["request_start"]) THEN int(values["request_start"]) ELSE 0)>>

\* <<int(request_end) - int(request_start)>>; int raises ValueError on a text
\* that is not a number
response_time(values) ==
    IF ~IsInt(values["request_end"]) \/ ~IsInt(values["request_start"]) THEN Raised
    ELSE <<int(values["request_end"]) - int(values["request_start"])>>

parse_entry(values) ==
    IF response_time(values) = Raised THEN Raised
    ELSE IF parse_request(values["error"]) = Raised THEN Raised
    ELSE LET request == parse_request(values["error"])
         IN   "test_type" :> args.type
           @@ "user_count" :> args.count
           @@ "response_time" :> response_time(values)[1]
           @@ "request_start" :> (values["request_start"] \o <<"0", "0", "0", "0", "0", "0">>)
           @@ "response_code" :> extract_response_code(values["error"])
           @@ "error_code" :> extract_error_code(values["error"])
           @@ "request_url" :> request[1]
           @@ "request_params" :> request[2]
           @@ "request_method" :> request[3]
           @@ "headers" :> escape_for_json(parse_headers(values["error"]))
           @@ "response" :> parse_response(values["error"])
           @@ "error" :> escape_for_json(values["error"])
           @@ "gatling_error" :> escape_for_json(values["gatling_error"])
           @@ values

-----------------------------------------------------------------------------
(* difflib.SequenceMatcher(None, a, b) for texts shorter than 200 characters *)
(* (no junk, no popular characters). Windows are a[alo..ahi-1], b[blo..bhi-1]. *)

\* length of the common run of a from i and b from j inside the windows
RunLength(a, i, ahi, b, j, bhi) ==
    LET most == IF ahi - i < bhi - j THEN ahi - i ELSE bhi - j
    IN CHOOSE k \in 0..most :
        /\ \A d \in 0..(k - 1) : a[i + d] = b[j + d]
        /\ k = most \/ a[i + k] # b[j + k]

\* <<i, j, k>>: the longest block a[i..i+k-1] = b[j..j+k-1] in the windows; of the
\* longest the one starting earliest in a, and of those the one earliest in b
find_longest_match(a, b, alo, ahi, blo, bhi) ==
    LET starts == (alo..(ahi - 1)) \X (blo..(bhi - 1))
        size(p) == RunLength(a, p[1], ahi, b, p[2], bhi)
        bestsize == IF starts = {} THEN 0
                    ELSE CHOOSE k \in {size(p) : p \in starts} :
                             \A p \in starts : size(p) <= k
        longest == {p \in starts : size(p) = bestsize}
        besti == Min({p[1] : p \in longest})
        bestj == Min({p[2] : p \in {q \in longest : q[1] = besti}})
    IN IF bestsize = 0 THEN <<alo, blo, 0>> ELSE <<besti, bestj, bestsize>>

\* the sum of the sizes of get_matching_blocks(): the longest block, then the
\* blocks to its left and to its right
RECURSIVE matches(_, _, _, _, _, _)
matches(a, b, alo, ahi, blo, bhi) ==
    LET m == find_longest_match(a, b, alo, ahi, blo, bhi)
    IN IF m[3] = 0 THEN 0
       ELSE m[3] + matches(a, b, alo, m[1], blo, m[2])
                 + matches(a, b, m[1] + m[3], ahi, m[2] + m[3], bhi)

\* difflib._calculate_ratio, as the fraction <<numerator, denominator>>
calculate_ratio(nmatches, length) ==
    IF length # 0 THEN <<2 * nmatches, length>> ELSE <<1, 1>>

ratio(a, b) ==
    calculate_ratio(matches(a, b, 1, Len(a) + 1, 1, Len(b) + 1), Len(a) + Len(b))

-----------------------------------------------------------------------------
(* ErrorAggregator                                                         *)

\* field.lower()
lower(field) ==
    CASE field = "Response" -> "response"
      [] field = "Request_params" -> "request_params"
      [] field = "Gatling_error" -> "gatling_error"

\* check_dublicate comparing with the newest sample only
check_dublicate_last_only(cluster, d, field) ==
    /\ Len(cluster[field]) >= 1
    /\ LET r == ratio(str(d[lower(field)]), str(cluster[field][Len(cluster[field])]))
       IN 10 * r[1] > 7 * r[2]

\* check_dublicate with ratio() >= 0.7
check_dublicate_ge(cluster, d, field) ==
    \E n \in 1..Len(cluster[field]) :
        LET r == ratio(str(d[lower(field)]), str(cluster[field][n]))
        IN 10 * r[1] >= 7 * r[2]

\* check_dublicate never matching a value that is None
check_dublicate_skip_none(cluster, d, field) ==
    /\ d[lower(field)] # None
    /\ \E n \in 1..Len(cluster[field]) :
          LET r == ratio(str(d[lower(field)]), str(cluster[field][n]))
          IN 10 * r[1] > 7 * r[2]

\* TRUE where the code returns True, FALSE where it returns None
check_dublicate(cluster, d, field) ==
    \E n \in 1..Len(cluster[field]) :
        LET r == ratio(str(d[lower(field)]), str(cluster[field][n]))
        IN 10 * r[1] > 7 * r[2]   \* ratio() > 0.7

\* "%s_%s_%s" % (request_name, error_code, response_code)
key_of(d) ==
    d["request_name"] \o <<"_">> \o d["error_code"] \o <<"_">> \o d["response_code"]

\* new_cluster with the counter starting at 0
new_cluster_count_zero(d) ==
       "Request name" :> d["request_name"]
    @@ "Method" :> d["request_method"]
    @@ "Request headers" :> d["headers"]
    @@ "Error count" :> 0
    @@ "Environment" :> d["environment"]
    @@ "Response code" :> d["response_code"]
    @@ "Error code" :> d["error_code"]
    @@ "Request URL" :> d["request_url"]
    @@ "Request_params" :> <<>>
    @@ "Response" :> <<>>
    @@ "Gatling_error" :> <<>>

\* the cluster created for an unseen key
new_cluster(d) ==
       "Request name" :> d["request_name"]
    @@ "Method" :> d["request_method"]
    @@ "Request headers" :> d["headers"]
    @@ "Error count" :> 1
    @@ "Environment" :> d["environment"]
    @@ "Response code" :> d["response_code"]
    @@ "Error code" :> d["error_code"]
    @@ "Request URL" :> d["request_url"]
    @@ "Request_params" :> <<>>
    @@ "Response" :> <<>>
    @@ "Gatling_error" :> <<>>

\* for_fields inserting the new sample at the head of the list
RECURSIVE for_fields_prepend(_, _, _)
for_fields_prepend(cluster, d, n) ==
    IF n > Len(ERROR_FIELDS) THEN cluster
    ELSE LET field == ERROR_FIELDS[n]
         IN IF check_dublicate(cluster, d, field)
            THEN [cluster EXCEPT !["Error count"] = @ + 1]
            ELSE for_fields_prepend([cluster EXCEPT ![field] = <<d[lower(field)]>> \o @], d, n + 1)

\* for_fields counting also the record that matches in no field
RECURSIVE for_fields_count_novel(_, _, _)
for_fields_count_novel(cluster, d, n) ==
    IF n > Len(ERROR_FIELDS) THEN [cluster EXCEPT !["Error count"] = @ + 1]
    ELSE LET field == ERROR_FIELDS[n]
         IN IF check_dublicate(cluster, d, field)
            THEN [cluster EXCEPT !["Error count"] = @ + 1]
            ELSE for_fields_count_novel([cluster EXCEPT ![field] = Append(@, d[lower(field)])], d, n + 1)

\* for field in ERROR_FIELDS, from the n-th field on
RECURSIVE for_fields(_, _, _)
for_fields(cluster, d, n) ==
    IF n > Len(ERROR_FIELDS) THEN cluster
    ELSE LET field == ERROR_FIELDS[n]
         IN IF check_dublicate(cluster, d, field)
            THEN [cluster EXCEPT !["Error count"] = @ + 1]    \* break
            ELSE for_fields([cluster EXCEPT ![field] = Append(@, d[lower(field)])], d, n + 1)

\* the cluster map after the clustering of one parsed entry (lines 62-77)
ingest(errs, d) ==
    LET key == key_of(d)
        cluster == IF key \notin DOMAIN errs THEN new_cluster(d) ELSE errs[key]
    IN [k \in DOMAIN errs \cup {key} |->
            IF k = key THEN for_fields(cluster, d, 1) ELSE errs[k]]

-----------------------------------------------------------------------------
(* The log file: every sequence of at most MaxLines lines drawn from Lines *)

MaxLines == 3

\* Request: u?<params> <method> headers: h, HTTP Code: T(504), "code": "-3", Response: <response>
FullError(method, params, response) ==
    <<"R", "e", "q", "u", "e", "s", "t", ":", " ", "u", "?">> \o params \o <<" ">> \o method
    \o <<" ", "h", "e", "a", "d", "e", "r", "s", ":", " ", "h", ",", " ",
         "H", "T", "T", "P", " ", "C", "o", "d", "e", ":", " ", "T", "(", "5", "0", "4", ")", ",", " ",
         "\"", "c", "o", "d", "e", "\"", ":", " ", "\"", "-", "3", "\"", ",", " ">>
    \o <<"R", "e", "s", "p", "o", "n", "s", "e", ":", " ">> \o response

\* a line of ten columns
Line(request_name, request_start, request_end, status, gatling_error, error) ==
    <<<<"R">>, <<"s">>, <<"1">>, <<"s">>, request_name, request_start, request_end,
      status, gatling_error, error>>

KO == <<"K", "O">>

GET == <<"G", "E", "T">>

\* six columns only
ShortLine == <<<<"R">>, <<"s">>, <<"1">>, <<"s">>, <<"r">>, <<"1">>>>

\* a request that did not fail; its start is not a number
OkLine == Line(<<"r">>, <<"x">>, <<"9">>, <<"O", "K">>, <<>>, <<>>)

\* a failure whose end is not a number
BadTimeLine ==
    Line(<<"r">>, <<"1">>, <<"x">>, KO, <<"k", "k", "k", "k">>,
         FullError(GET, <<"a", "=", "1">>, <<"b", "a", "b", "b", "a">>))

\* a failure with the Request: marker and no method before " headers"
NoMethodLine ==
    Line(<<"r">>, <<"1">>, <<"9">>, KO, <<"k", "k", "k", "k">>,
         <<"R", "e", "q", "u", "e", "s", "t", ":", " ", "u", "?", "a", "=", "1", " ",
           "H", "T", "T", "P", " ", "C", "o", "d", "e", ":", " ", "T", "(", "5", "0", "4", ")", ",", " ">>)

\* a failure of eight columns: no gatling_error, no error
BareLine == <<<<"R">>, <<"s">>, <<"1">>, <<"s">>, <<"r">>, <<"1">>, <<"9">>, KO>>

\* a failure whose error text has none of the patterns
PlainLine == Line(<<"r">>, <<"1">>, <<"9">>, KO, <<"z", "z">>, <<"b", "o", "o", "m">>)

LineA ==
    Line(<<"r">>, <<"1">>, <<"9">>, KO, <<"k", "k", "k", "k">>,
         FullError(GET, <<"a", "=", "1">>, <<"b", "a", "b", "b", "a">>))

LineB ==
    Line(<<"r">>, <<"1">>, <<"9">>, KO, <<>>,
         FullError(<<"P", "O", "S", "T">>, <<"b", "=", "2">>, <<"a", "b", "a">>))

LineC ==
    Line(<<"r">>, <<"2">>, <<"9">>, KO, <<>>,
         FullError(GET, <<"a", "=", "1">>, <<"a", "a", "a", "a", "a", "a", "a">>))

LineD ==
    Line(<<"r">>, <<"1">>, <<"9">>, KO, <<"k", "k", "k", "k">>,
         FullError(GET, <<"a", "=", "1", "&", "S", "e", "s", "s", "i", "o", "n", "I", "d", "=", "1", "&", "b", "=", "2">>,
                   <<"a", "a", "a", "a", "a", "a", "a", "b", "b", "b", "b", "b", "b">>))

\* another request name: another cluster key
LineQ ==
    Line(<<"q">>, <<"1">>, <<"9">>, KO, <<"m", "m">>,
         FullError(GET, <<"a", "=", "1", "&", "S", "e", "s", "s", "i", "o", "n", "I", "d", "=", "2", "&", "b", "=", "2">>,
                   <<"a", "b", "a">>))

\* a failure with a request and no codes, no "Response:" part
NullLine ==
    Line(<<"r">>, <<"1">>, <<"9">>, KO, <<"y", "y">>,
         <<"R", "e", "q", "u", "e", "s", "t", ":", " ", "u", "?", "c", "=", "3", " ",
           "G", "E", "T", " ", "h", "e", "a", "d", "e", "r", "s", ":", " ", "h", ",", " ">>)

\* a failure with a request and both codes, no "Response:" part
NullCodeLine ==
    Line(<<"r">>, <<"1">>, <<"9">>, KO, <<"y", "y">>,
         <<"R", "e", "q", "u", "e", "s", "t", ":", " ", "u", "?", "d", "=", "4", " ",
           "G", "E", "T", " ", "h", "e", "a", "d", "e", "r", "s", ":", " ", "h", ",", " ",
           "H", "T", "T", "P", " ", "C", "o", "d", "e", ":", " ", "T", "(", "5", "0", "4", ")", ",", " ",
           "\"", "c", "o", "d", "e", "\"", ":", " ", "\"", "-", "3", "\"", ",", " ">>)

Lines == {ShortLine, OkLine, BadTimeLine, NoMethodLine, BareLine, PlainLine,
          LineA, LineB, LineC, LineD, LineQ, NullLine, NullCodeLine}

-----------------------------------------------------------------------------
(* parse_log                                                               *)

\* parse_entry(entry) for the row of every line of the file, computed once
ParsedRows == [line \in Lines |-> parse_entry(DictReader(line))]

\* the entry handed to the clustering: parse_entry and lines 59-61
parsed(line, sim) ==
    LET values == ParsedRows[line]
    IN IF values = Raised THEN Raised
       ELSE    "simulation" :> sim
            @@ "environment" :> args.environment
            @@ "request_params" :> remove_session_id(values["request_params"])
            @@ values

\* the local variable data before the first successful parse_entry
Unbound == "unbound" :> TRUE

Init ==
    /\ errors = <<>>
    /\ unparsed_counter = 0
    /\ simulation = None
    /\ data = Unbound
    /\ consumed = <<>>
    /\ pc = "loop"

\* is_failure without the test of the status
is_failure_any_status(row) == Cardinality(DOMAIN row) >= 8

\* the condition of line 56: the row is clustered
is_failure(row) == Cardinality(DOMAIN row) >= 8 /\ row["status"] = KO

\* one iteration of the loop over the rows of the file (lines 53-80)
ReadEntry(line) ==
    LET row == DictReader(line)
        sim == IF simulation = None THEN row["simulation_name"] ELSE simulation
        d == parsed(line, sim)
    IN /\ pc = "loop"
       /\ Len(consumed) < MaxLines
       /\ consumed' = Append(consumed, line)
       /\ simulation' = sim
       /\ IF is_failure(row)
          THEN IF d = Raised
               THEN /\ unparsed_counter' = unparsed_counter + 1
                    /\ UNCHANGED <<errors, data>>
               ELSE /\ data' = d
                    /\ errors' = ingest(errors, d)
                    /\ UNCHANGED unparsed_counter
          ELSE UNCHANGED <<errors, unparsed_counter, data>>
       /\ pc' = "loop"

\* the end of the file: the loop ends and parse_log returns errors (lines 82-84)
Return ==
    /\ pc = "loop"
    /\ pc' = "done"
    /\ UNCHANGED <<errors, unparsed_counter, simulation, data, consumed>>

Next ==
    \/ \E line \in Lines : ReadEntry(line)
    \/ Return

Spec == Init /\ [][Next]_vars

-----------------------------------------------------------------------------
(* Vocabulary of the properties, stated on the lines of the file           *)

\* the step reads one more line of the file
ReadsLine == consumed' # consumed

\* the line read by the step, the line read last
NewLine == consumed'[Len(consumed')]
LastLine == consumed[Len(consumed)]

\* the line has fewer than 8 columns
IsShort(line) == Len(line) < 8

\* the line has a status column and it is exactly KO
IsKO(line) == Len(line) >= 8 /\ line[8] = KO


\* the literal occurs in the text
Contains(text, literal) == \E i \in 1..Len(text) : Lit(text, i, literal)

\* column k of the line as csv delivers it
Column(line, k) == IF k <= Len(line) THEN line[k] ELSE not_found

\* a timestamp of the line is not a number
BadTimestamps(line) == ~IsInt(Column(line, 6)) \/ ~IsInt(Column(line, 7))

\* the error text has "Request: <token> " and no upper-case word before " headers"
NoMethod(line) ==
    /\ \E i \in 1..Len(Column(line, 10)) : request_at(Column(line, 10), i) # NoMatch
    /\ \A i \in 1..Len(Column(line, 10)) : method_at(Column(line, 10), i) = NoMatch

\* the step reads a KO line and does not count it as unparsed: data' is its record
StepParsed == ReadsLine /\ IsKO(NewLine) /\ unparsed_counter' = unparsed_counter

\* the key "<request_name>_<error_code>_<response_code>" of a parsed record
KeyOf(d) ==
    d["request_name"] \o <<"_">> \o d["error_code"] \o <<"_">> \o d["response_code"]

SampleFields == {"Response", "Request_params", "Gatling_error"}

StaticFields == {"Request name", "Method", "Request headers", "Environment",
                 "Response code", "Error code", "Request URL"}

\* the value of a parsed record that goes to a sample list
SampleOf(d, field) ==
    CASE field = "Response" -> d["response"]
      [] field = "Request_params" -> d["request_params"]
      [] field = "Gatling_error" -> d["gatling_error"]

\* the text compared by the similarity check
TextOf(x) == IF x = None THEN <<"N", "o", "n", "e">> ELSE x

\* M, the matched characters of new against sample, and T, their total length
M(new, sample) == matches(TextOf(new), TextOf(sample), 1, Len(TextOf(new)) + 1,
                          1, Len(TextOf(sample)) + 1)
T(new, sample) == Len(TextOf(new)) + Len(TextOf(sample))

\* the ratio of new against sample is above 0.7 (1.0 for two empty texts)
Similar(new, sample) ==
    \/ T(new, sample) = 0
    \/ 10 * 2 * M(new, sample) > 7 * T(new, sample)

\* s is a prefix of t
IsPrefix(s, t) == Len(s) <= Len(t) /\ SubSeq(t, 1, Len(s)) = s

-----------------------------------------------------------------------------
(* Properties                                                              *)

\* C1: a parsed KO record whose key already exists either increments 'Error
\* count' by one and leaves the three sample lists unchanged, or appends its
\* value to all three sample lists and leaves 'Error count' unchanged.
C1_CountOrSamples ==
    [][ (StepParsed /\ KeyOf(data') \in DOMAIN errors) =>
            LET old == errors[KeyOf(data')]
                new == errors'[KeyOf(data')]
            IN \/ /\ new["Error count"] = old["Error count"] + 1
                  /\ \A f \in SampleFields : new[f] = old[f]
               \/ /\ new["Error count"] = old["Error count"]
                  /\ \A f \in SampleFields : new[f] = Append(old[f], SampleOf(data', f))
      ]_vars

\* C2: for a KO record with numeric timestamps a missing pattern never aborts
\* the record: it is not counted as unparsed, it reaches the cluster map, and
\* the field of each absent pattern is UNDEFINED (None for the response),
\* also when "Request: <token> " is there and no method precedes " headers".
C2_MissingPatternNeverAborts ==
    [][ (ReadsLine /\ IsKO(NewLine) /\ ~BadTimestamps(NewLine)) =>
            LET text == Column(NewLine, 10)
            IN /\ unparsed_counter' = unparsed_counter
               /\ "error" \in DOMAIN data'
               /\ data'["error"] = escape_for_json(text)
               /\ KeyOf(data') \in DOMAIN errors'
               /\ ~Contains(text, <<"H", "T", "T", "P", " ", "C", "o", "d", "e", ":">>)
                     => data'["response_code"] = UNDEFINED
               /\ ~Contains(text, <<"o", "d", "e", "\"", ":">>)
                     => data'["error_code"] = UNDEFINED
               /\ ~Contains(text, <<"R", "e", "q", "u", "e", "s", "t", ":">>)
                     => /\ data'["request_url"] = UNDEFINED
                        /\ data'["request_params"] = UNDEFINED
               /\ (~Contains(text, <<"R", "e", "q", "u", "e", "s", "t", ":">>) \/ NoMethod(NewLine))
                     => data'["request_method"] = UNDEFINED
               /\ ~Contains(text, <<"h", "e", "a", "d", "e", "r", "s", ":">>)
                     => data'["headers"] = UNDEFINED
               /\ ~Contains(text, <<"R", "e", "s", "p", "o", "n", "s", "e", ":">>)
                     => data'["response"] = None
      ]_vars

\* C3: reading a line adds exactly one to the unparsed counter if the line is
\* KO and its parsing raises (a timestamp that is not a number, a request
\* without method), and nothing otherwise; the loop goes on after it.
C3_UnparsedCounterStep ==
    [][ ReadsLine =>
            /\ unparsed_counter' = unparsed_counter +
                   (IF IsKO(NewLine) /\ (BadTimestamps(NewLine) \/ NoMethod(NewLine))
                    THEN 1 ELSE 0)
            /\ pc' = "loop"
      ]_vars

\* C3 witness: a KO line was counted as unparsed, a short line and a line that
\* is not KO were not, and a line was read after the counted one
C3_Witness ==
    /\ Len(consumed) = 3
    /\ IsKO(consumed[1]) /\ BadTimestamps(consumed[1])
    /\ (IsShort(consumed[2]) \/ ~IsKO(consumed[2])) /\ BadTimestamps(consumed[2])
    /\ IsKO(consumed[3]) /\ ~BadTimestamps(consumed[3]) /\ ~NoMethod(consumed[3])
    /\ unparsed_counter = 1
    /\ errors # <<>>

\* C4: the cluster map changes only on a KO line whose parsing completes: a
\* line that is short, not KO, or whose parsing raises (and is counted as
\* unparsed) leaves every cluster as it was.
C4_OnlyParsedChangesClusters ==
    [][ (ReadsLine /\ errors' # errors) =>
            /\ IsKO(NewLine)
            /\ ~BadTimestamps(NewLine)
            /\ ~NoMethod(NewLine)
            /\ unparsed_counter' = unparsed_counter
      ]_vars

\* C4 witness: clusters exist, and the line read last was counted as unparsed
C4_Witness ==
    /\ Len(consumed) >= 2
    /\ errors # <<>>
    /\ IsKO(LastLine) /\ BadTimestamps(LastLine)
    /\ unparsed_counter >= 1

\* C5: no sample list holds a sample that the similarity check reported as a
\* duplicate of an earlier sample of the list: for positions i < j the sample
\* at j has no ratio above 0.7 against the sample at i.
C5_OneSamplePerClass ==
    \A k \in DOMAIN errors : \A f \in SampleFields :
        \A i, j \in 1..Len(errors[k][f]) :
            i < j => ~Similar(errors[k][f][j], errors[k][f][i])

\* C5 witness: a list of three samples in a cluster that also merged a record
C5_Witness ==
    \E k \in DOMAIN errors :
        /\ Len(errors[k]["Response"]) = 3
        /\ Len(errors[k]["Gatling_error"]) = 2
        /\ errors[k]["Error count"] = 2

\* C6: a parsed KO record with a key not yet in the map creates exactly one
\* cluster under "<request_name>_<error_code>_<response_code>", with this
\* record's static fields, 'Error count' 1 and one sample in each list; no
\* other cluster is touched.
C6_NewCluster ==
    [][ (StepParsed /\ KeyOf(data') \notin DOMAIN errors) =>
            LET key == KeyOf(data')
            IN /\ data'["request_name"] = NewLine[5]
               /\ DOMAIN errors' = DOMAIN errors \cup {key}
               /\ \A k \in DOMAIN errors : errors'[k] = errors[k]
               /\ errors'[key]["Request name"] = data'["request_name"]
               /\ errors'[key]["Method"] = data'["request_method"]
               /\ errors'[key]["Request headers"] = data'["headers"]
               /\ errors'[key]["Environment"] = data'["environment"]
               /\ errors'[key]["Response code"] = data'["response_code"]
               /\ errors'[key]["Error code"] = data'["error_code"]
               /\ errors'[key]["Request URL"] = data'["request_url"]
               /\ errors'[key]["Error count"] = 1
               /\ errors'[key]["Response"] = <<data'["response"]>>
               /\ errors'[key]["Request_params"] = <<data'["request_params"]>>
               /\ errors'[key]["Gatling_error"] = <<data'["gatling_error"]>>
      ]_vars

\* C6 witness: a second cluster was just created from the line read last
C6_Witness ==
    /\ Cardinality(DOMAIN errors) = 2
    /\ "request_name" \in DOMAIN data
    /\ data["request_name"] = LastLine[5]
    /\ errors[KeyOf(data)]["Error count"] = 1
    /\ \A f \in SampleFields : errors[KeyOf(data)][f] = <<SampleOf(data, f)>>
    /\ \E k \in DOMAIN errors : errors[k]["Error count"] = 2

\* one of the four spellings of the session key and "=" stand at position i
SessionKeyAt(p, i) ==
    \/ Lit(p, i, <<"S", "e", "s", "s", "i", "o", "n", "I", "d", "=">>)
    \/ Lit(p, i, <<"s", "e", "s", "s", "i", "o", "n", "I", "D", "=">>)
    \/ Lit(p, i, <<"s", "e", "s", "s", "i", "o", "n", "I", "d", "=">>)
    \/ Lit(p, i, <<"S", "e", "s", "s", "i", "o", "n", "I", "D", "=">>)

\* the position after the session value of the key at i: the next "&" or the end
ValueEnd(p, i) ==
    IF \E k \in (i + 10)..Len(p) : p[k] = "&"
    THEN Min({k \in (i + 10)..Len(p) : p[k] = "&"})
    ELSE Len(p) + 1

\* p and q differ only in the value of the session key at position i
DifferOnlyInSessionValueAt(p, q, i) ==
    /\ SessionKeyAt(p, i) /\ SessionKeyAt(q, i)
    /\ SubSeq(p, 1, i + 9) = SubSeq(q, 1, i + 9)
    /\ SubSeq(p, ValueEnd(p, i), Len(p)) = SubSeq(q, ValueEnd(q, i), Len(q))

\* the request params of a KO line that parses, before the redaction
RawParams(line) == parse_request(Column(line, 10))[2]

\* the line is a KO line that parses
Parses(line) == IsKO(line) /\ ~BadTimestamps(line) /\ ~NoMethod(line)

\* p with the session value of the key at i replaced by the placeholder; the
\* "&" that ends the value is kept or goes with the value
Redactions(p, i) ==
    LET head == SubSeq(p, 1, i + 9) \o <<"_", ".", ".", ".">>
    IN {head \o SubSeq(p, ValueEnd(p, i), Len(p)),
        head \o SubSeq(p, ValueEnd(p, i) + 1, Len(p))}

\* C7: two request-param strings that differ only in the value after
\* SessionId= are redacted to the same string, and the text outside the
\* session value is left unchanged (stated on two records parsed one after
\* the other).
C7_SameAfterRedaction ==
    [][ (StepParsed /\ consumed # <<>> /\ Parses(LastLine)) =>
            \A i \in 1..Len(RawParams(NewLine)) :
                DifferOnlyInSessionValueAt(RawParams(LastLine), RawParams(NewLine), i) =>
                    /\ data'["request_params"] = data["request_params"]
                    /\ data'["request_params"] \in Redactions(RawParams(NewLine), i)
      ]_vars

\* the fields of a parsed step seen by the duplicate check, with the samples
\* of the cluster before the step (none for a new key)
OldSamples(f) ==
    IF KeyOf(data') \in DOMAIN errors THEN errors[KeyOf(data')][f] ELSE <<>>

OldCount ==
    IF KeyOf(data') \in DOMAIN errors THEN errors[KeyOf(data')]["Error count"] ELSE 1

\* 10*2*M > 7*T for some sample of the list
AboveThreshold(f) ==
    \E n \in 1..Len(OldSamples(f)) :
        10 * 2 * M(SampleOf(data', f), OldSamples(f)[n])
            > 7 * T(SampleOf(data', f), OldSamples(f)[n])

\* as AboveThreshold, and two empty texts (T = 0) have ratio 1.0
AboveThresholdOrBothEmpty(f) ==
    \E n \in 1..Len(OldSamples(f)) : Similar(SampleOf(data', f), OldSamples(f)[n])

\* what a parsed step does when Dup(f) tells the fields that are duplicates:
\* the fields are taken in order up to the first duplicate, a field that is
\* not a duplicate gets the value appended, the first duplicate adds one to
\* 'Error count'
StepFollows(Dup(_)) ==
    LET new == errors'[KeyOf(data')]
        reached(f) == CASE f = "Response" -> TRUE
                        [] f = "Request_params" -> ~Dup("Response")
                        [] f = "Gatling_error" -> ~Dup("Response") /\ ~Dup("Request_params")
    IN /\ \A f \in SampleFields :
            new[f] = IF reached(f) /\ ~Dup(f)
                     THEN Append(OldSamples(f), SampleOf(data', f))
                     ELSE OldSamples(f)
       /\ new["Error count"] =
            OldCount + (IF \E f \in SampleFields : Dup(f) THEN 1 ELSE 0)

\* C8 as stated: a field is a duplicate iff some sample of its list has
\* 10*2*M > 7*T against the new value; 10*2*M = 7*T is not merged; an empty
\* list never yields a duplicate.
C8_DuplicateIffAboveThreshold ==
    [][ StepParsed => StepFollows(AboveThreshold) ]_vars

\* C8 amended: a field is a duplicate iff some sample of its list has
\* 10*2*M > 7*T against the new value or both texts are empty (T = 0, ratio
\* 1.0); with T > 0, 10*2*M = 7*T is not merged; an empty list never yields a
\* duplicate.
C8_DuplicateIffRatioAbove ==
    [][ StepParsed => StepFollows(AboveThresholdOrBothEmpty) ]_vars

\* C8 witness: a Response list holds a pair with 10*2*M = 7*T exactly, and the
\* record read last was merged on an empty gatling error against an empty sample
C8_Witness ==
    /\ "gatling_error" \in DOMAIN data
    /\ data["gatling_error"] = <<>>
    /\ LET c == errors[KeyOf(data)]
       IN /\ c["Error count"] = 2
          /\ c["Gatling_error"][1] = <<>>
          /\ c["Response"][Len(c["Response"])] = data["response"]
          /\ \E i, j \in 1..Len(c["Response"]) :
                /\ i < j
                /\ 10 * 2 * M(c["Response"][j], c["Response"][i])
                      = 7 * T(c["Response"][j], c["Response"][i])
                /\ T(c["Response"][j], c["Response"][i]) > 0

\* C9: a cluster is never removed, its static fields never change, its 'Error
\* count' never decreases, and each sample list only grows at its end.
C9_ClustersOnlyGrow ==
    [][ \A k \in DOMAIN errors :
            /\ k \in DOMAIN errors'
            /\ \A f \in StaticFields : errors'[k][f] = errors[k][f]
            /\ errors'[k]["Error count"] >= errors[k]["Error count"]
            /\ \A f \in SampleFields : IsPrefix(errors[k][f], errors'[k][f])
      ]_vars

\* C9 witness: a cluster with two samples and a merged record whose last record
\* has another method than the one the cluster was created with
C9_Witness ==
    /\ "request_method" \in DOMAIN data
    /\ LET c == errors[KeyOf(data)]
       IN /\ c["Method"] # data["request_method"]
          /\ Len(c["Response"]) >= 2
          /\ c["Error count"] >= 2

\* the record of a line that parses
RecordOf(line) == parsed(line, Column(line, 4))

\* some tracked field of b has a ratio above 0.7 with the value of a
Duplicates(b, a) ==
    \E f \in SampleFields : Similar(SampleOf(b, f), SampleOf(a, f))

\* C10: for two parsed failures A and B with the same key where B duplicates
\* A, the file [A, B] and the file [B, A] both end with 'Error count' = 2.
C10_SameCountEitherOrder ==
    (/\ Len(consumed) = 2
     /\ Parses(consumed[1]) /\ Parses(consumed[2])
     /\ KeyOf(RecordOf(consumed[1])) = KeyOf(RecordOf(consumed[2]))
     /\ \/ Duplicates(RecordOf(consumed[2]), RecordOf(consumed[1]))
        \/ Duplicates(RecordOf(consumed[1]), RecordOf(consumed[2])))
    => errors[KeyOf(RecordOf(consumed[1]))]["Error count"] = 2

\* the positions of the lines read that parsed into a record with key k
ParsedWithKey(k) ==
    {i \in 1..Len(consumed) : Parses(consumed[i]) /\ KeyOf(RecordOf(consumed[i])) = k}

\* the records a cluster accounts for: 'Error count' + len(Gatling_error) - 1
Accounted(cluster) == cluster["Error count"] + Len(cluster["Gatling_error"]) - 1

\* the sum of Accounted over the clusters with a key in keys
RECURSIVE SumAccounted(_)
SumAccounted(keys) ==
    IF keys = {} THEN 0
    ELSE LET k == CHOOSE x \in keys : TRUE
         IN Accounted(errors[k]) + SumAccounted(keys \ {k})

\* C11: after any prefix of the file, for every cluster the number of parsed
\* KO records with its key is 'Error count' + len(Gatling_error) - 1, with
\* len(Response) >= len(Request_params) >= len(Gatling_error) >= 1; and the
\* number of KO lines read is the unparsed counter plus the sum of these
\* numbers over the clusters.
C11_Accounting ==
    /\ \A k \in DOMAIN errors :
          /\ Cardinality(ParsedWithKey(k)) = Accounted(errors[k])
          /\ Len(errors[k]["Response"]) >= Len(errors[k]["Request_params"])
          /\ Len(errors[k]["Request_params"]) >= Len(errors[k]["Gatling_error"])
          /\ Len(errors[k]["Gatling_error"]) >= 1
    /\ Cardinality({i \in 1..Len(consumed) : IsKO(consumed[i])})
          = unparsed_counter + SumAccounted(DOMAIN errors)

\* C11 witness: a cluster of three records, one of them judged novel in every
\* field (not counted) and one judged a duplicate on Request_params after its
\* response was appended
C11_Witness ==
    \E k \in DOMAIN errors :
        /\ Cardinality(ParsedWithKey(k)) = 3
        /\ errors[k]["Error count"] = 2
        /\ Len(errors[k]["Response"]) = 3
        /\ Len(errors[k]["Request_params"]) = 2
        /\ Len(errors[k]["Gatling_error"]) = 2

\* an earlier line read parsed into a record with key k and a null response
EarlierNullResponse(k) ==
    \E i \in 1..Len(consumed) :
        /\ Parses(consumed[i])
        /\ KeyOf(RecordOf(consumed[i])) = k
        /\ RecordOf(consumed[i])["response"] = None

\* no sample of the list is similar to the value
Unlike(value, samples) == \A n \in 1..Len(samples) : ~Similar(value, samples[n])

\* C12: a parsed record whose error text has no "Response:" part has a null
\* response; the null goes to the Response list as null, as the first sample of
\* a new cluster or appended when no sample is similar to the text "None"; and
\* a later record with the same key and a null response only increments 'Error
\* count': no sample list of the cluster changes, whatever its request params
\* and gatling error are.
C12_NullResponseDuplicate ==
    [][StepParsed =>
        LET d == data'
            k == KeyOf(data')
        IN /\ ~Contains(Column(NewLine, 10), <<"R", "e", "s", "p", "o", "n", "s", "e", ":">>)
                => d["response"] = None
           /\ (d["response"] = None /\ k \notin DOMAIN errors)
                => errors'[k]["Response"] = <<None>>
           /\ (d["response"] = None /\ k \in DOMAIN errors
                 /\ Unlike(None, errors[k]["Response"]))
                => errors'[k]["Response"] = Append(errors[k]["Response"], None)
           /\ (d["response"] = None /\ EarlierNullResponse(k))
                => /\ k \in DOMAIN errors
                   /\ errors' = [errors EXCEPT ![k] =
                                    [@ EXCEPT !["Error count"] = @ + 1]]
    ]_vars

\* C12 witness: the last line read has a null response, after another of its
\* key with a null response; its request params and gatling error are unlike
\* every sample of the cluster, which counts it and holds the null once
C12_Witness ==
    /\ Len(consumed) >= 2
    /\ Parses(LastLine)
    /\ LET d == RecordOf(LastLine)
           k == KeyOf(RecordOf(LastLine))
       IN /\ data = d
          /\ d["response"] = None
          /\ ~Contains(Column(LastLine, 10), <<"R", "e", "s", "p", "o", "n", "s", "e", ":">>)
          /\ \E i \in 1..(Len(consumed) - 1) :
                /\ Parses(consumed[i])
                /\ KeyOf(RecordOf(consumed[i])) = k
                /\ RecordOf(consumed[i])["response"] = None
          /\ k \in DOMAIN errors
          /\ errors[k]["Error count"] >= 2
          /\ Cardinality({n \in 1..Len(errors[k]["Response"]) :
                             errors[k]["Response"][n] = None}) = 1
          /\ Unlike(d["request_params"], errors[k]["Request_params"])
          /\ Unlike(d["gatling_error"], errors[k]["Gatling_error"])

====
